---------------------------- MODULE Spec2Model ----------------------------
(***************************************************************************)
(* The WorkflowFiles view of reana-ui: a sortable listing of a workflow's   *)
(* workspace files with a preview modal.  The view's hook state, the store  *)
(* array it reads through the selector, the Modal that is open and the      *)
(* preview requests in flight are the state; one action per handler,        *)
(* effect or promise callback.                                              *)
(*                                                                          *)
(* JavaScript strings are tuples of one-character strings, so that          *)
(* startsWith, split(".").pop(), string concatenation and the "<" of        *)
(* lodash's comparator are computed character by character.                 *)
(***************************************************************************)
EXTENDS Integers, Sequences, FiniteSets, Bags, TLC

VARIABLES
    loading,              \* useSelector(loadingDetails)
    store_files,          \* contents of the array the store holds for the workflow (_files)
    files_ref,            \* which array the hook state `files` refers to: "store" or "local"
    local_arr,            \* contents of the array last created by _.sortBy
    column,               \* useState(null) sort column
    direction,            \* useState(null) sort direction
    modalContent,         \* useState(null)
    isServerPreviewable,  \* useState(false)
    pending,              \* bag of axios requests in flight
    opened,               \* name of the row whose Modal is open, or None
    hist,                 \* history: header clicks since the last list sync
    failedLatest,         \* history: the request of the latest activation was rejected
    argName, argSize, ret \* a direct call of checkConstraints and what it returned

vars == <<loading, store_files, files_ref, local_arr, column, direction,
          modalContent, isServerPreviewable, pending, opened, hist,
          failedLatest, argName, argSize, ret>>

-----------------------------------------------------------------------------
(* Bounds *)

MaxFiles == 2

MaxPending == 2

-----------------------------------------------------------------------------
(* JavaScript strings *)

\* The characters used, in UTF-16 code unit order.
CodeUnits == <<" ", "\"", "(", ")", ",", "-", ".", "/", "0", "1", "2", "3", "4", "5", "6", "7", "8", "9", ":", "?", "A", "B", "C", "D", "E", "F", "G", "H", "I", "J", "K", "L", "M", "N", "O", "P", "Q", "R", "S", "T", "U", "V", "W", "X", "Y", "Z", "_", "a", "b", "c", "d", "e", "f", "g", "h", "i", "j", "k", "l", "m", "n", "o", "p", "q", "r", "s", "t", "u", "v", "w", "x", "y", "z", "{", "}">>

Code(ch) == CHOOSE i \in 1..Len(CodeUnits) : CodeUnits[i] = ch

RECURSIVE StrLess(_, _)
\* a < b on strings: the first differing code unit decides, a proper prefix is smaller.
StrLess(a, b) ==
    IF b = <<>> THEN FALSE
    ELSE IF a = <<>> THEN TRUE
    ELSE IF Head(a) = Head(b) THEN StrLess(Tail(a), Tail(b))
    ELSE Code(Head(a)) < Code(Head(b))

startsWith(s, prefix) ==
    /\ Len(prefix) <= Len(s)
    /\ SubSeq(s, 1, Len(prefix)) = prefix

endsWith(s, suffix) ==
    /\ Len(suffix) <= Len(s)
    /\ SubSeq(s, Len(s) - Len(suffix) + 1, Len(s)) = suffix

\* fileName.split(".").pop(): what follows the last ".", the whole name when there is none.
SplitPop(fileName) ==
    LET dots == {i \in 1..Len(fileName) : fileName[i] = "."}
    IN  IF dots = {} THEN fileName
        ELSE LET last == CHOOSE i \in dots : \A j \in dots : j <= i
             IN  SubSeq(fileName, last + 1, Len(fileName))

Reverse(s) == [i \in 1..Len(s) |-> s[Len(s) + 1 - i]]

Null == [kind |-> "null", val |-> <<>>]

None == <<>>

-----------------------------------------------------------------------------
(* Configuration, whitelist and the workspace *)

\* config.api and the id prop.
config_api == <<"h", "t", "t", "p", "s", ":", "/", "/", "r", "e", "a", "n", "a">>

id == <<"a", "b", "c", "1", "2", "3">>

\* Object.keys(PREVIEW_MIME_PREFIX_WHITELIST), in insertion order.
PREVIEW_MIME_PREFIX_WHITELIST_KEYS ==
    << <<"i", "m", "a", "g", "e", "/">>, <<"t", "e", "x", "t", "/">>, <<"a", "p", "p", "l", "i", "c", "a", "t", "i", "o", "n", "/", "j", "s", "o", "n">> >>

\* PREVIEW_MIME_PREFIX_WHITELIST[key].serverPreviewable
serverPreviewableOf(key) == key = <<"i", "m", "a", "g", "e", "/">>

SIZE_LIMIT == 5 * 1024 ^ 2

\* getMimeType(fileName): the MIME type registered for the name's extension,
\* NoMime (null) when the name has none or it is unknown.
NoMime == <<>>

getMimeType(fileName) ==
    LET ext == SplitPop(fileName)
    IN  IF ext = fileName THEN NoMime
        ELSE IF ext = <<"p", "n", "g">> THEN <<"i", "m", "a", "g", "e", "/", "p", "n", "g">>
        ELSE IF ext = <<"t", "x", "t">> THEN <<"t", "e", "x", "t", "/", "p", "l", "a", "i", "n">>
        ELSE IF ext = <<"j", "s", "o", "n">> THEN <<"a", "p", "p", "l", "i", "c", "a", "t", "i", "o", "n", "/", "j", "s", "o", "n">>
        ELSE IF ext = <<"j", "s", "o", "n", "m", "l">> THEN <<"a", "p", "p", "l", "i", "c", "a", "t", "i", "o", "n", "/", "j", "s", "o", "n", "m", "l", "+", "j", "s", "o", "n">>
        ELSE IF ext = <<"j", "s">> THEN <<"a", "p", "p", "l", "i", "c", "a", "t", "i", "o", "n", "/", "j", "a", "v", "a", "s", "c", "r", "i", "p", "t">>
        ELSE IF ext = <<"b", "i", "n">> THEN <<"a", "p", "p", "l", "i", "c", "a", "t", "i", "o", "n", "/", "o", "c", "t", "e", "t", "-", "s", "t", "r", "e", "a", "m">>
        ELSE IF ext = <<"h", "t", "m", "l">> THEN <<"t", "e", "x", "t", "/", "h", "t", "m", "l">>
        ELSE NoMime

\* The FileEntry records the file-listing API can report: unique names, with
\* ties in lastModified and in size, and sizes on both sides of SIZE_LIMIT.
FileEntries ==
    { [name |-> <<"p", "h", "o", "t", "o", ".", "p", "n", "g">>,  lastModified |-> <<"2", "0", "2", "0", "-", "0", "3">>, size |-> 5242880],
      [name |-> <<"b", "i", "g", ".", "t", "x", "t">>,    lastModified |-> <<"2", "0", "2", "0", "-", "0", "1">>, size |-> 5242881],
      [name |-> <<"n", "o", "t", "e", "s", ".", "j", "s", "o", "n">>, lastModified |-> <<"2", "0", "2", "0", "-", "0", "2">>, size |-> 1000],
      [name |-> <<"r", "e", "p", "o", "r", "t", ".", "t", "x", "t">>, lastModified |-> <<"2", "0", "2", "0", "-", "0", "2">>, size |-> 1000],
      [name |-> <<"R", "E", "A", "D", "M", "E">>,     lastModified |-> <<"2", "0", "2", "0", "-", "0", "1">>, size |-> 20] }

RECURSIVE ListsOver(_, _)
\* The sequences without repetition of at most n entries of S.
ListsOver(S, n) ==
    IF n = 0 THEN {<<>>}
    ELSE LET shorter == ListsOver(S, n - 1)
         IN  shorter \cup
             {Append(l, e) : l \in {x \in shorter : Len(x) = n - 1},
                             e \in S}

FileLists == {l \in ListsOver(FileEntries, MaxFiles) :
                \A i, j \in 1..Len(l) : i # j => l[i].name # l[j].name}

-----------------------------------------------------------------------------
(* Pure functions of the view *)

Columns == {"name", "lastModified", "size"}

RECURSIVE NumberToString(_)
\* Template-literal conversion of a non-negative integer to its decimal digits.
NumberToString(n) ==
    LET digit == << "0", "1", "2", "3", "4", "5", "6", "7", "8", "9" >>
    IN  IF n < 10 THEN << digit[n + 1] >>
        ELSE Append(NumberToString(n \div 10), digit[(n % 10) + 1])

getFileURL(fileName, preview) ==
    config_api \o <<"/", "a", "p", "i", "/", "w", "o", "r", "k", "f", "l", "o", "w", "s", "/">> \o id \o <<"/", "w", "o", "r", "k", "s", "p", "a", "c", "e", "/">> \o fileName
        \o (IF preview THEN <<"?", "p", "r", "e", "v", "i", "e", "w">> ELSE <<>>)

\* mimeType && list.find(ext => mimeType.startsWith(ext)): the first key of the
\* list the MIME type starts with; a falsy value (NoMime) when the MIME type is
\* unset or no key matches.
matchesMimeType(list, fileName) ==
    LET mimeType == getMimeType(fileName)
        hits == {i \in 1..Len(list) : startsWith(mimeType, list[i])}
    IN  IF mimeType = NoMime \/ hits = {} THEN NoMime
        ELSE list[CHOOSE i \in hits : \A j \in hits : i <= j]

Message(content) == [kind |-> "Message", val |-> content]

\* Mutant of checkConstraints: the limit itself is refused (>= for >).
checkConstraints_atLimit(fileName, size) ==
    LET match == matchesMimeType(PREVIEW_MIME_PREFIX_WHITELIST_KEYS, fileName)
    IN  IF match = NoMime
        THEN Message(SplitPop(fileName)
                     \o <<" ", "f", "i", "l", "e", "s", " ", "c", "a", "n", "n", "o", "t", " ", "b", "e", " ", "p", "r", "e", "v", "i", "e", "w", "e", "d", ".", " ", "P", "l", "e", "a", "s", "e", " ", "u", "s", "e", " ", "d", "o", "w", "n", "l", "o", "a", "d", ".">>)
        ELSE IF size >= SIZE_LIMIT
        THEN Message(<<"F", "i", "l", "e", " ", "s", "i", "z", "e", " ", "i", "s", " ", "t", "o", "o", " ", "b", "i", "g", " ", "t", "o", " ", "b", "e", " ", "p", "r", "e", "v", "i", "e", "w", "e", "d", " ", "(", "l", "i", "m", "i", "t", " ">>
                     \o NumberToString(SIZE_LIMIT \div (1024 ^ 2))
                     \o <<"M", "B", ")", ".", " ", "P", "l", "e", "a", "s", "e", " ", "u", "s", "e", " ", "d", "o", "w", "n", "l", "o", "a", "d", ".">>)
        ELSE Null

checkConstraints(fileName, size) ==
    LET match == matchesMimeType(PREVIEW_MIME_PREFIX_WHITELIST_KEYS, fileName)
    IN  IF match = NoMime
        THEN Message(SplitPop(fileName)
                     \o <<" ", "f", "i", "l", "e", "s", " ", "c", "a", "n", "n", "o", "t", " ", "b", "e", " ", "p", "r", "e", "v", "i", "e", "w", "e", "d", ".", " ", "P", "l", "e", "a", "s", "e", " ", "u", "s", "e", " ", "d", "o", "w", "n", "l", "o", "a", "d", ".">>)
        ELSE IF size > SIZE_LIMIT
        THEN Message(<<"F", "i", "l", "e", " ", "s", "i", "z", "e", " ", "i", "s", " ", "t", "o", "o", " ", "b", "i", "g", " ", "t", "o", " ", "b", "e", " ", "p", "r", "e", "v", "i", "e", "w", "e", "d", " ", "(", "l", "i", "m", "i", "t", " ">>
                     \o NumberToString(SIZE_LIMIT \div (1024 ^ 2))
                     \o <<"M", "B", ")", ".", " ", "P", "l", "e", "a", "s", "e", " ", "u", "s", "e", " ", "d", "o", "w", "n", "l", "o", "a", "d", ".">>)
        ELSE Null

\* lodash compareAscending on two values of one column: 1, -1 or 0.
compareAscending(col, value, other) ==
    LET less(x, y) == IF col = "size" THEN x < y ELSE StrLess(x, y)
    IN  IF less(other, value) THEN 1
        ELSE IF less(value, other) THEN -1
        ELSE 0

\* lodash compareMultiple on {criteria, index} objects: the criterion decides,
\* the original index breaks ties.
compareMultiple(col, object, other) ==
    LET result == compareAscending(col, object.criteria, other.criteria)
    IN  IF result # 0 THEN result ELSE object.index - other.index

RECURSIVE SortWith(_, _)
\* Array.prototype.sort under compareMultiple, a total order: insertion sort.
SortWith(col, objects) ==
    IF objects = <<>> THEN <<>>
    ELSE LET rest == SortWith(col, Tail(objects))
             x == Head(objects)
             before == {i \in 1..Len(rest) : compareMultiple(col, rest[i], x) < 0}
             k == Cardinality(before)
         IN  SubSeq(rest, 1, k) \o <<x>> \o SubSeq(rest, k + 1, Len(rest))

\* Mutant of sortBy: ties are not kept in their previous order.
sortBy_unstable(collection, col) ==
    LET objects == [i \in 1..Len(collection) |->
                      [criteria |-> collection[i][col], index |-> 0 - i,
                       value |-> collection[i]]]
        sorted == SortWith(col, objects)
    IN  [i \in 1..Len(sorted) |-> sorted[i].value]

\* _.sortBy(collection, [col]): a new array, stable, ascending by the column.
sortBy(collection, col) ==
    LET objects == [i \in 1..Len(collection) |->
                      [criteria |-> collection[i][col], index |-> i,
                       value |-> collection[i]]]
        sorted == SortWith(col, objects)
    IN  [i \in 1..Len(sorted) |-> sorted[i].value]

\* JSON.stringify of a one-level object, given as a tuple of <<key, number>> pairs.
RECURSIVE StringifyPairs(_)
StringifyPairs(pairs) ==
    IF pairs = <<>> THEN <<>>
    ELSE <<"\"">> \o pairs[1][1] \o <<"\"", ":">> \o NumberToString(pairs[1][2])
         \o (IF Len(pairs) > 1 THEN <<",">> ELSE <<>>)
         \o StringifyPairs(Tail(pairs))

JSON_stringify(object) == <<"{">> \o StringifyPairs(object) \o <<"}">>

\* res.data for each preview URL the view can request: axios parses a JSON body
\* into an object and leaves any other body a string.
ResponseData(url) ==
    IF url = getFileURL(<<"n", "o", "t", "e", "s", ".", "j", "s", "o", "n">>, TRUE)
    THEN [type |-> "object", val |-> << <<<<"k">>, 1>> >>]
    ELSE IF url = getFileURL(<<"r", "e", "p", "o", "r", "t", ".", "t", "x", "t">>, TRUE)
    THEN [type |-> "string", val |-> <<"o", "k">>]
    ELSE [type |-> "string", val |-> <<>>]

-----------------------------------------------------------------------------
(* State of the mounted view *)

\* The array the hook state `files` refers to, read through the reference.
files == IF files_ref = "store" THEN store_files ELSE local_arr

\* axios({method: "get", url: url, withCredentials: true}); `latest` is history:
\* the request belongs to the latest row activation.
Request(url, latest) ==
    [method |-> "get", url |-> url, withCredentials |-> TRUE, latest |-> latest]

\* The requests in flight once a new row is activated: none of them belongs to
\* the latest activation any more.
Superseded(bag) ==
    LET urls == {r.url : r \in DOMAIN bag}
    IN  [r \in {Request(u, FALSE) : u \in urls} |->
            CopiesIn(Request(r.url, TRUE), bag) + CopiesIn(Request(r.url, FALSE), bag)]

NoCall == [kind |-> "not called", val |-> <<>>]

\* useState initial values, then the two mount effects: the fetch action is
\* dispatched and `files` is set to the selector's array.
Init ==
    /\ loading \in BOOLEAN
    /\ store_files \in FileLists
    /\ files_ref = "store"
    /\ local_arr = <<>>
    /\ column = "null"
    /\ direction = "null"
    /\ modalContent = Null
    /\ isServerPreviewable = FALSE
    /\ pending = EmptyBag
    /\ opened = None
    /\ hist = <<>>
    /\ failedLatest = FALSE
    /\ argName = <<>>
    /\ argSize = 0
    /\ ret = NoCall

callVars == <<argName, argSize, ret>>

sortVars == <<store_files, files_ref, local_arr, column, direction, hist>>

previewVars == <<modalContent, isServerPreviewable, pending, failedLatest>>

-----------------------------------------------------------------------------
(* The store *)

\* dispatch(fetchWorkflowFiles(id)): the store turns loading on, the view
\* renders the Loader instead of the table, which unmounts every row's Modal.
fetchWorkflowFiles ==
    /\ ~loading
    /\ loading' = TRUE
    /\ opened' = None
    /\ UNCHANGED <<sortVars, previewVars, callVars>>

\* Mutant of ListSync: the new listing is shown sorted by the recorded column.
ListSync_keepsSort(newFiles) ==
    /\ loading
    /\ loading' = FALSE
    /\ store_files' = newFiles
    /\ IF column = "null"
       THEN files_ref' = "store" /\ local_arr' = <<>>
       ELSE files_ref' = "local" /\ local_arr' = sortBy(newFiles, column)
    /\ hist' = <<>>
    /\ UNCHANGED <<column, direction, opened, previewVars, callVars>>

\* The store receives the listing: the selector returns a new array, loading
\* turns off and the effect on [_files] runs setFiles(_files).
ListSync(newFiles) ==
    /\ loading
    /\ loading' = FALSE
    /\ store_files' = newFiles
    /\ files_ref' = "store"
    /\ local_arr' = <<>>
    /\ hist' = <<>>
    /\ UNCHANGED <<column, direction, opened, previewVars, callVars>>

-----------------------------------------------------------------------------
(* Handlers *)

\* The last header clicks, newest last: the clicked column, whether it was the
\* recorded column, and the rows before the click.
Remember(h, click) ==
    LET all == Append(h, click)
    IN  IF Len(all) > 3 THEN Tail(all) ELSE all

\* Mutant of SortedIntoNewArray: the new array is a copy that is not sorted.
SortedIntoNewArray_copy(clickedColumn) ==
    /\ files_ref' = "local"
    /\ local_arr' = files
    /\ UNCHANGED store_files

\* setFiles(_.sortBy(files, [clickedColumn])): a new array becomes the state.
SortedIntoNewArray(clickedColumn) ==
    /\ files_ref' = "local"
    /\ local_arr' = sortBy(files, clickedColumn)
    /\ UNCHANGED store_files

\* Mutant of ReversedInPlace: a same-column click sorts again, in the other
\* direction, instead of reversing.
ReversedInPlace_resort ==
    LET again == IF direction = "ascending" THEN Reverse(sortBy(files, column))
                                            ELSE sortBy(files, column)
    IN  /\ files_ref' = files_ref
        /\ IF files_ref = "store"
           THEN store_files' = again /\ UNCHANGED local_arr
           ELSE local_arr' = again /\ UNCHANGED store_files

\* setFiles(files.reverse()): Array.prototype.reverse reverses the array that
\* `files` refers to in place and returns that same array.
ReversedInPlace ==
    /\ files_ref' = files_ref
    /\ IF files_ref = "store"
       THEN store_files' = Reverse(store_files) /\ UNCHANGED local_arr
       ELSE local_arr' = Reverse(local_arr) /\ UNCHANGED store_files

handleSort(clickedColumn) ==
    /\ ~loading
    /\ opened = None
    /\ IF column # clickedColumn
       THEN /\ direction' = "ascending"
            /\ SortedIntoNewArray(clickedColumn)
            /\ column' = clickedColumn
       ELSE /\ ReversedInPlace
            /\ direction' = IF direction = "ascending" THEN "descending"
                                                        ELSE "ascending"
            /\ UNCHANGED column
    /\ hist' = Remember(hist, [col |-> clickedColumn,
                               same |-> (column = clickedColumn),
                               before |-> files])
    /\ UNCHANGED <<loading, opened, previewVars, callVars>>

\* Whether getFile(fileName, size) issues the axios GET.
IssuesGet(fileName, size) ==
    /\ checkConstraints(fileName, size) = Null
    /\ ~serverPreviewableOf(
          matchesMimeType(PREVIEW_MIME_PREFIX_WHITELIST_KEYS, fileName))

\* Mutant of getFileBody: the GET is issued for server-previewable files too.
getFileBody_alwaysGet(fileName, size) ==
    LET message == checkConstraints(fileName, size)
    IN  IF message # Null
        THEN /\ modalContent' = message
             /\ isServerPreviewable' = FALSE
             /\ pending' = Superseded(pending)
        ELSE LET url == getFileURL(fileName, TRUE)
                 mimeType == matchesMimeType(PREVIEW_MIME_PREFIX_WHITELIST_KEYS,
                                             fileName)
             IN  /\ modalContent' = [kind |-> "string", val |-> url]
                 /\ isServerPreviewable' = serverPreviewableOf(mimeType)
                 /\ pending' = Superseded(pending) (+) SetToBag({Request(url, TRUE)})

\* The body of getFile.
getFileBody(fileName, size) ==
    LET message == checkConstraints(fileName, size)
    IN  IF message # Null
        THEN /\ modalContent' = message
             /\ isServerPreviewable' = FALSE
             /\ pending' = Superseded(pending)
        ELSE LET url == getFileURL(fileName, TRUE)
                 mimeType == matchesMimeType(PREVIEW_MIME_PREFIX_WHITELIST_KEYS,
                                             fileName)
                 serverPreviewable == serverPreviewableOf(mimeType)
             IN  /\ modalContent' = [kind |-> "string", val |-> url]
                 /\ isServerPreviewable' = serverPreviewable
                 /\ pending' = IF ~serverPreviewable
                               THEN Superseded(pending) (+) SetToBag({Request(url, TRUE)})
                               ELSE Superseded(pending)

\* A click on row i opens its Modal, whose onOpen calls getFile(name, size).
\* The table is rendered when loading is off, and an open Modal covers it: a
\* row or a header is clicked only when no Modal is open.  A GET is issued
\* only while fewer than MaxPending requests are in flight.
getFile(i) ==
    /\ ~loading
    /\ opened = None
    /\ i \in 1..Len(files)
    /\ IssuesGet(files[i].name, files[i].size) => BagCardinality(pending) < MaxPending
    /\ getFileBody(files[i].name, files[i].size)
    /\ opened' = files[i].name
    /\ failedLatest' = FALSE
    /\ UNCHANGED <<loading, sortVars, callVars>>

\* The Modal's closeIcon: the Modal closes, no handler of the view runs.
closeModal ==
    /\ opened # None
    /\ opened' = None
    /\ UNCHANGED <<loading, sortVars, previewVars, callVars>>

\* The content the .then callback shows for res.data.
Rendered(data) ==
    LET result == IF data.type = "object" THEN JSON_stringify(data.val) ELSE data.val
    IN  [kind |-> "pre", val |-> result]

\* Mutant of fetchResolved: the response is fenced, a response for a file that
\* is not the open one is dropped.
fetchResolved_fenced(req) ==
    /\ BagIn(req, pending)
    /\ pending' = pending (-) SetToBag({req})
    /\ modalContent' = IF opened # None /\ req.url = getFileURL(opened, TRUE)
                       THEN Rendered(ResponseData(req.url))
                       ELSE modalContent
    /\ UNCHANGED <<loading, sortVars, isServerPreviewable, opened, failedLatest, callVars>>

\* The .then callback of a request in flight.
fetchResolved(req) ==
    /\ BagIn(req, pending)
    /\ pending' = pending (-) SetToBag({req})
    /\ modalContent' = Rendered(ResponseData(req.url))
    /\ UNCHANGED <<loading, sortVars, isServerPreviewable, opened, failedLatest, callVars>>

\* A request in flight is rejected: the promise has no rejection handler.
fetchRejected(req) ==
    /\ BagIn(req, pending)
    /\ pending' = pending (-) SetToBag({req})
    /\ failedLatest' = (failedLatest \/ req.latest)
    /\ UNCHANGED <<loading, sortVars, modalContent, isServerPreviewable, opened, callVars>>

Next ==
    \/ fetchWorkflowFiles
    \/ \E newFiles \in FileLists : ListSync(newFiles)
    \/ \E clickedColumn \in Columns : handleSort(clickedColumn)
    \/ \E i \in 1..MaxFiles : getFile(i)
    \/ closeModal
    \/ \E req \in DOMAIN pending : fetchResolved(req)
    \/ \E req \in DOMAIN pending : fetchRejected(req)

Spec == Init /\ [][Next]_vars

\* The listing alone: the store and the header clicks.
NextSort ==
    \/ fetchWorkflowFiles
    \/ \E newFiles \in FileLists : ListSync(newFiles)
    \/ \E clickedColumn \in Columns : handleSort(clickedColumn)

SpecSort == Init /\ [][NextSort]_vars

\* The preview: row activations and their requests, while the store replaces
\* the listing; no header is clicked.
NextPreview ==
    \/ fetchWorkflowFiles
    \/ \E newFiles \in FileLists : ListSync(newFiles)
    \/ \E i \in 1..MaxFiles : getFile(i)
    \/ closeModal
    \/ \E req \in DOMAIN pending : fetchResolved(req)
    \/ \E req \in DOMAIN pending : fetchRejected(req)

SpecPreview == Init /\ [][NextPreview]_vars

-----------------------------------------------------------------------------
(* checkConstraints called directly, on any file name and size *)

FileNames ==
    { <<"p", "h", "o", "t", "o", ".", "p", "n", "g">>, <<"r", "e", "p", "o", "r", "t", ".", "t", "x", "t">>, <<"n", "o", "t", "e", "s", ".", "j", "s", "o", "n">>, <<"f", "e", "e", "d", ".", "j", "s", "o", "n", "m", "l">>,
      <<"a", "p", "p", ".", "j", "s">>, <<"d", "a", "t", "a", ".", "b", "i", "n">>, <<"p", "a", "g", "e", ".", "h", "t", "m", "l">>, <<"R", "E", "A", "D", "M", "E">> }

FileSizes == {0, 1000, 5242879, 5242880, 5242881, 6000000, 10485760}

InitCheck ==
    /\ loading = TRUE
    /\ store_files = <<>>
    /\ files_ref = "store"
    /\ local_arr = <<>>
    /\ column = "null"
    /\ direction = "null"
    /\ modalContent = Null
    /\ isServerPreviewable = FALSE
    /\ pending = EmptyBag
    /\ opened = None
    /\ hist = <<>>
    /\ failedLatest = FALSE
    /\ argName \in FileNames
    /\ argSize \in FileSizes
    /\ ret = NoCall

callCheckConstraints ==
    /\ ret = NoCall
    /\ ret' = checkConstraints(argName, argSize)
    /\ UNCHANGED <<loading, opened, sortVars, previewVars, argName, argSize>>

SpecCheck == InitCheck /\ [][callCheckConstraints]_vars

-----------------------------------------------------------------------------
(* Claims about the sort toggle and the list sync *)

Last(s) == s[Len(s)]

\* x comes before y under the "<" that lodash applies to the column.
Less(col, x, y) == IF col = "size" THEN x < y ELSE StrLess(x, y)

PosIn(list, entry) == CHOOSE i \in 1..Len(list) : list[i] = entry

IsAscendingBy(list, col) ==
    \A i, j \in 1..Len(list) : i < j => ~Less(col, list[j][col], list[i][col])

IsDescendingBy(list, col) ==
    \A i, j \in 1..Len(list) : i < j => ~Less(col, list[i][col], list[j][col])

SameEntries(new, old) ==
    /\ Len(new) = Len(old)
    /\ {new[i] : i \in 1..Len(new)} = {old[i] : i \in 1..Len(old)}

IsStableAscendingSortOf(new, old, col) ==
    /\ SameEntries(new, old)
    /\ IsAscendingBy(new, col)
    /\ \A i, j \in 1..Len(new) :
          (i < j /\ new[i][col] = new[j][col]) => PosIn(old, new[i]) < PosIn(old, new[j])

\* C1: a header click on a column other than the recorded one (the initial
\* unset column included) leaves direction ascending, records the clicked
\* column, and makes the local list the stable ascending sort by that column of
\* the list as it was before the click.
C1_NewColumnStableAscending ==
    [][\A c \in Columns :
          (handleSort(c) /\ column # c) =>
              /\ direction' = "ascending"
              /\ column' = c
              /\ IsStableAscendingSortOf(files', files, c)]_vars

\* A new-column click has just reordered the rows.
C1_Witness ==
    /\ hist # <<>>
    /\ ~Last(hist).same
    /\ column = Last(hist).col
    /\ direction = "ascending"
    /\ files # Last(hist).before
    /\ Len(files) >= 2

\* C2: a header click on the recorded column reverses the local list as it is,
\* sorted or not, and flips direction between ascending and descending; two
\* such clicks in a row restore the order before the first of them.
C2_SameColumnReverses ==
    /\ [][\A c \in Columns :
            (handleSort(c) /\ column = c) =>
                /\ files' = Reverse(files)
                /\ column' = c
                /\ direction \in {"ascending", "descending"}
                /\ direction' \in {"ascending", "descending"}
                /\ direction' # direction]_vars
    /\ [](Len(hist) >= 2 /\ hist[Len(hist)].same /\ hist[Len(hist) - 1].same
            => files = hist[Len(hist) - 1].before)

\* Two same-column clicks in a row on rows that a reversal changes: the second
\* restored the order, the first had left rows that are not sorted ascending.
C2_Witness ==
    /\ Len(hist) >= 2
    /\ Last(hist).same
    /\ hist[Len(hist) - 1].same
    /\ files # Reverse(files)
    /\ files = hist[Len(hist) - 1].before
    /\ direction = "ascending"
    /\ ~IsAscendingBy(files, column)

\* C6: the list sync replaces the local list by the store's list: after a sync,
\* and on the initial render, until a header is clicked the rows are the
\* store's list in the selector's order, whatever column is recorded.
C6_SyncMirrorsStore ==
    /\ [][\A l \in FileLists : ListSync(l) => files' = l]_vars
    /\ [](hist = <<>> => files = store_files)

\* After a sync the header still reports an ascending sort on a column by which
\* the mirrored rows are not sorted: the earlier sort is lost.
C6_Witness ==
    /\ ~loading
    /\ hist = <<>>
    /\ column # "null"
    /\ direction = "ascending"
    /\ files = store_files
    /\ ~IsAscendingBy(files, column)

\* The last three header clicks, with no list sync between them, were on a
\* column A, then on another column B, then on B again.
ClickedABB ==
    /\ Len(hist) = 3
    /\ hist[1].col # hist[2].col
    /\ ~hist[2].same
    /\ hist[3].col = hist[2].col
    /\ hist[3].same

IsStableDescendingSortOf(new, old, col) ==
    /\ SameEntries(new, old)
    /\ IsDescendingBy(new, col)
    /\ \A i, j \in 1..Len(new) :
          (i < j /\ new[i][col] = new[j][col]) => PosIn(old, new[i]) < PosIn(old, new[j])

NoTies(list, col) ==
    \A i, j \in 1..Len(list) : i # j => list[i][col] # list[j][col]

\* C8 as stated: after click A, click B, click B on two rows or more, the local
\* list is not a descending sort by B of the list the last click found.
C8_Original ==
    (ClickedABB /\ Len(files) >= 2) =>
        ~IsStableDescendingSortOf(files, hist[3].before, column)

\* C8 amended: after click A, click B, click B the local list is the reversal
\* of the stable ascending sort by B; that reversal is in descending order by
\* B, and it is the stable descending sort by B unless rows tie in B.
C8_ReversalIsDescending ==
    ClickedABB =>
        /\ column = hist[3].col
        /\ direction = "descending"
        /\ IsStableAscendingSortOf(hist[3].before, hist[2].before, column)
        /\ files = Reverse(hist[3].before)
        /\ IsDescendingBy(files, column)
        /\ NoTies(files, column) =>
              IsStableDescendingSortOf(files, hist[3].before, column)

\* Click A, click B, click B on rows that tie in B: the rows are in descending
\* order with the tied rows in the reverse of their order before the B clicks.
C8_Witness ==
    /\ ClickedABB
    /\ Len(files) >= 2
    /\ files[1][column] = files[2][column]
    /\ PosIn(hist[2].before, files[1]) > PosIn(hist[2].before, files[2])

\* C9: the list held by the store changes only when the store itself replaces
\* it; no handler, effect or callback of the view modifies it.
C9_StoreListOnlyByStore ==
    [][store_files' # store_files => \E l \in FileLists : ListSync(l)]_vars

-----------------------------------------------------------------------------
(* Claims about the preview *)

\* The requests in flight for a URL.
InFlight(bag, url) ==
    CopiesIn(Request(url, TRUE), bag) + CopiesIn(Request(url, FALSE), bag)

PreviewURLs == {getFileURL(e.name, TRUE) : e \in FileEntries}

\* C3: a request in flight is never cancelled (closing the Modal or activating
\* another row removes none) nor fenced (whatever is open or closed, its
\* response can arrive, and then replaces modalContent by the content of the
\* file that was requested).
C3_StaleResponseOverwrites ==
    /\ [][opened' # opened =>
            \A url \in PreviewURLs : InFlight(pending', url) >= InFlight(pending, url)]_vars
    /\ [](\A req \in DOMAIN pending :
            ENABLED (/\ NextPreview
                     /\ pending' = pending (-) SetToBag({req})
                     /\ modalContent' = [kind |-> "pre",
                                         val |-> Rendered(ResponseData(req.url)).val]))

\* The Modal of one file is open and modalContent holds the fetched content of
\* another file.
C3_Witness ==
    /\ opened # None
    /\ modalContent.kind = "pre"
    /\ \E e \in FileEntries :
          /\ e.name # opened
          /\ modalContent = Rendered(ResponseData(getFileURL(e.name, TRUE)))
    /\ modalContent # Rendered(ResponseData(getFileURL(opened, TRUE)))

Previewable(fileName) ==
    /\ getMimeType(fileName) # NoMime
    /\ \E prefix \in {<<"i", "m", "a", "g", "e", "/">>, <<"t", "e", "x", "t", "/">>, <<"a", "p", "p", "l", "i", "c", "a", "t", "i", "o", "n", "/", "j", "s", "o", "n">>} :
          startsWith(getMimeType(fileName), prefix)

\* C4: getFile(name, size) on a row: when checkConstraints produces a message,
\* modalContent becomes the message, isServerPreviewable false and no GET is
\* issued; otherwise modalContent becomes the preview URL of name, ending in
\* ?preview, isServerPreviewable becomes the whitelist entry's value (true for
\* image/ only), and one credentialed GET to that URL is issued exactly when
\* that value is false.
C4_GetFilePostcondition ==
    [][\A i \in 1..MaxFiles :
          getFile(i) =>
            LET name == files[i].name
                size == files[i].size
                url == config_api \o <<"/", "a", "p", "i", "/", "w", "o", "r", "k", "f", "l", "o", "w", "s", "/">> \o id \o <<"/", "w", "o", "r", "k", "s", "p", "a", "c", "e", "/">>
                          \o name \o <<"?", "p", "r", "e", "v", "i", "e", "w">>
                issued == BagCardinality(pending') - BagCardinality(pending)
            IN  IF checkConstraints(name, size) # Null
                THEN /\ modalContent' = checkConstraints(name, size)
                     /\ isServerPreviewable' = FALSE
                     /\ issued = 0
                ELSE /\ modalContent' = [kind |-> "string", val |-> url]
                     /\ endsWith(modalContent'.val, <<"?", "p", "r", "e", "v", "i", "e", "w">>)
                     /\ isServerPreviewable' = startsWith(getMimeType(name), <<"i", "m", "a", "g", "e", "/">>)
                     /\ issued = IF isServerPreviewable' THEN 0 ELSE 1
                     /\ ~isServerPreviewable' =>
                          /\ InFlight(pending', url) = InFlight(pending, url) + 1
                          /\ \A req \in DOMAIN pending' :
                                req.method = "get" /\ req.withCredentials]_vars

\* A row that passes the constraints and is not server-previewable was
\* activated: its URL is shown and its GET is in flight.
C4_Witness ==
    /\ opened # None
    /\ modalContent = [kind |-> "string", val |-> getFileURL(opened, TRUE)]
    /\ ~isServerPreviewable
    /\ InFlight(pending, getFileURL(opened, TRUE)) = 1

\* C5: for every file name and size, checkConstraints yields the "cannot be
\* previewed" message iff the MIME type is unset or starts with no whitelist
\* prefix; the "too big (limit 5MB)" message iff a prefix matches and
\* size > 5242880; and no message otherwise, size = 5242880 included.
C5_CheckConstraints ==
    ret # NoCall =>
        LET cannot == Message(SplitPop(argName)
                        \o <<" ", "f", "i", "l", "e", "s", " ", "c", "a", "n", "n", "o", "t", " ", "b", "e", " ", "p", "r", "e", "v", "i", "e", "w", "e", "d", ".", " ", "P", "l", "e", "a", "s", "e", " ", "u", "s", "e", " ", "d", "o", "w", "n", "l", "o", "a", "d", ".">>)
            tooBig == Message(
                <<"F", "i", "l", "e", " ", "s", "i", "z", "e", " ", "i", "s", " ", "t", "o", "o", " ", "b", "i", "g", " ", "t", "o", " ", "b", "e", " ", "p", "r", "e", "v", "i", "e", "w", "e", "d", " ", "(", "l", "i", "m", "i", "t", " ", "5", "M", "B", ")", ".", " ", "P", "l", "e", "a", "s", "e", " ", "u", "s", "e", " ", "d", "o", "w", "n", "l", "o", "a", "d", ".">>)
        IN  /\ cannot # tooBig
            /\ (ret = cannot) <=> ~Previewable(argName)
            /\ (ret = tooBig) <=> (Previewable(argName) /\ argSize > 5242880)
            /\ (ret = Null) <=> (Previewable(argName) /\ argSize <= 5242880)

\* checkConstraints permitted the preview of a file of exactly 5242880 bytes.
C5_Witness ==
    /\ ret = Null
    /\ argSize = 5242880
    /\ Previewable(argName)

\* C7: once the GET of the latest activation has failed, and for as long as no
\* row is activated, modalContent does not change: it stays what the
\* activation set.
C7_FailureLeavesPlaceholder ==
    [][(failedLatest /\ failedLatest') => modalContent' = modalContent]_vars

\* C10: whenever isServerPreviewable is true, modalContent is a preview URL,
\* that of the open file, which is an image.
C10_ServerPreviewableShowsURL ==
    isServerPreviewable =>
        /\ modalContent.kind = "string"
        /\ endsWith(modalContent.val, <<"?", "p", "r", "e", "v", "i", "e", "w">>)
        /\ opened # None =>
              /\ modalContent.val = getFileURL(opened, TRUE)
              /\ startsWith(getMimeType(opened), <<"i", "m", "a", "g", "e", "/">>)

=============================================================================
